---------------------------- MODULE Spec2Model ----------------------------
(***************************************************************************)
(* Model of the point-cloud command line tools of cloudpoint_data_process: *)
(*   ply_to_local.py          global PLY -> local PLY + *_origin.json      *)
(*   local_ply_2_ecef_las.py  local (ENU) PLY -> ECEF LAS                   *)
(*                                                                         *)
(* Numbers are exact: coordinates are integers (a fixed-point grid), the   *)
(* float32 cast is modelled by its 24-bit rounding, sines and cosines are  *)
(* rationals with denominator TrigScale.                                   *)
(***************************************************************************)
EXTENDS Integers, Sequences, FiniteSets, TLC

(***************************************************************************)
(* Bounds of the model.                                                    *)
(***************************************************************************)
MaxPoints == 2

(***************************************************************************)
(* Program constants.                                                      *)
(***************************************************************************)
Float32Precision == 24

VARIABLES
    \* ---- ply_to_local.py: arguments -------------------------------------
    caller,            \* "cli": main(argv); "api": convert_ply_to_local(...)
    prop_names,        \* names of the vertex properties of the input PLY
    points_global,     \* the input points, a sequence of <<x, y, z>>
    shift_mode,
    manual_shift,      \* [none |-> BOOLEAN, vals |-> sequence of numbers]
    auto_base,
    force,
    save_origin_json,
    \* ---- ply_to_local.py: environment -----------------------------------
    io,                \* "ok" | "unreadable" (input) | "disk_full" (output)
    fs0,               \* the output paths before the run: [ply, json]
    fs,                \* the output paths now:            [ply, json]
    \* ---- ply_to_local.py: run -------------------------------------------
    pc,
    input_read,        \* PlyData.read(input_ply) has been called
    shift,
    points_local,      \* xyz as stored in the output vertex array (float32)
    outcome,           \* "running" | "returned" | "raised"
    exit_code,         \* the value main returned
    err,               \* the error raised, "none" if none
    err_fields,        \* the fields the MissingField message names
    stderr,            \* what was printed to sys.stderr
    \* ---- local_ply_2_ecef_las.py: arguments and input --------------------
    output,            \* args.output, a path [dir, name]
    origin_lon,        \* the origin's longitude, an angle [sin, cos]
    origin_lat,        \* the origin's latitude, an angle [sin, cos]
    origin_height,
    preserve_rgb,
    local_points,      \* the input points, a sequence of <<east, north, up>>
    vertex_color,      \* color -> [dtype, vals], the input's color channels
    input_ply_ok,      \* PlyData.read(input_ply) succeeds
    \* ---- local_ply_2_ecef_las.py: run ------------------------------------
    epc,
    output_dir,
    origin_ecef,
    R,
    ecef_points,
    las_rgb,           \* color -> the uint8 values set on the LAS data
    las_files,         \* the paths a LAS file was written at
    reported           \* the paths printed as "Output file"

argVars == <<caller, prop_names, points_global, shift_mode, manual_shift,
             auto_base, force, save_origin_json>>
envVars == <<io, fs0>>
runVars == <<pc, input_read, shift, points_local, outcome, exit_code, err,
             err_fields, stderr, fs>>
plyVars == <<argVars, envVars, runVars>>
ecefArgs == <<output, origin_lon, origin_lat, origin_height, preserve_rgb,
              local_points, vertex_color, input_ply_ok>>
ecefRun == <<epc, output_dir, origin_ecef, R, ecef_points, las_rgb, las_files,
             reported>>
ecefVars == <<ecefArgs, ecefRun>>
vars == <<plyVars, ecefVars>>

(***************************************************************************)
(* Helpers.                                                                *)
(***************************************************************************)
Abs(v) == IF v < 0 THEN -v ELSE v

RECURSIVE Sum(_)
Sum(arr) == IF arr = <<>> THEN 0 ELSE Head(arr) + Sum(Tail(arr))

RECURSIVE BitLen(_)
BitLen(a) == IF a = 0 THEN 0 ELSE 1 + BitLen(a \div 2)

SeqsUpTo(S, lo, hi) == UNION {[1..n -> S] : n \in lo..hi}

Axis(points, k) == [i \in 1..Len(points) |-> points[i][k]]

NoManual == [none |-> TRUE, vals |-> <<>>]
Given(vals) == [none |-> FALSE, vals |-> vals]

(***************************************************************************)
(* convert_ply_to_local: required fields.                                  *)
(***************************************************************************)
Required == {"x", "y", "z"}

MissingFieldsSwapped(names) == names \ Required

MissingFields(names) == Required \ names

(***************************************************************************)
(* main: the overwrite protection.                                         *)
(***************************************************************************)
OutputExistsIgnoringForce(f, state) == state # "absent"

\* (not args.force) and os.path.exists(output_ply)
OutputExists(f, state) == (~f) /\ state # "absent"

(***************************************************************************)
(* convert_ply_to_local: the shift.                                        *)
(***************************************************************************)
\* Rounds the quotient toward zero instead of down.
FloorBaseTruncating(arr, base) ==
    LET d == Len(arr) * base
        s == Sum(arr)
    IN  (IF s < 0 THEN -((-s) \div d) ELSE s \div d) * base

\* _floor_base: floor(mean(arr) / base) * base, for base > 0.
\* mean(arr)/base = Sum(arr)/(Len(arr)*base), and \div rounds down.
FloorBase(arr, base) == (Sum(arr) \div (Len(arr) * base)) * base

\* Accepts a manual shift of more than 3 values.
ShiftErrorLax(mode, manual, base) ==
    IF mode = "auto"
    THEN IF base <= 0 THEN "InvalidParameter" ELSE "none"
    ELSE IF mode = "manual"
    THEN IF manual.none \/ Len(manual.vals) < 3
         THEN "InvalidParameter" ELSE "none"
    ELSE IF mode = "first_point"
    THEN "none"
    ELSE "InvalidParameter"

\* The ValueError the shift block raises, "none" if it raises none.
ShiftError(mode, manual, base) ==
    IF mode = "auto"
    THEN IF base <= 0 THEN "InvalidParameter" ELSE "none"
    ELSE IF mode = "manual"
    THEN IF manual.none \/ Len(manual.vals) # 3
         THEN "InvalidParameter" ELSE "none"
    ELSE IF mode = "first_point"
    THEN "none"
    ELSE "InvalidParameter"

ComputeShift(points, mode, manual, base) ==
    IF mode = "auto"
    THEN <<FloorBase(Axis(points, 1), base),
           FloorBase(Axis(points, 2), base),
           FloorBase(Axis(points, 3), base)>>
    ELSE IF mode = "manual"
    THEN manual.vals
    ELSE points[1]

\* astype(np.float32) of an integer-valued float64: round to 24 significant
\* bits, ties to even.
RoundHalfEven(a, q) ==
    LET lo == a \div q
        r  == a % q
    IN  IF 2 * r < q THEN lo * q
        ELSE IF 2 * r > q THEN (lo + 1) * q
        ELSE IF lo % 2 = 0 THEN lo * q ELSE (lo + 1) * q

AsFloat32(v) ==
    LET a == Abs(v)
        q == IF BitLen(a) <= Float32Precision
             THEN 1 ELSE 2 ^ (BitLen(a) - Float32Precision)
    IN  IF v < 0 THEN -RoundHalfEven(a, q) ELSE RoundHalfEven(a, q)

\* Adds the shift instead of subtracting it.
PointsLocalAdded(points, s) ==
    [i \in 1..Len(points) |->
        <<AsFloat32(points[i][1] + s[1]),
          AsFloat32(points[i][2] + s[2]),
          AsFloat32(points[i][3] + s[3])>>]

\* points_local = points_global - shift, stored as float32.
PointsLocal(points, s) ==
    [i \in 1..Len(points) |->
        <<AsFloat32(points[i][1] - s[1]),
          AsFloat32(points[i][2] - s[2]),
          AsFloat32(points[i][3] - s[3])>>]

(***************************************************************************)
(* Inputs.                                                                 *)
(***************************************************************************)
PropSets == SUBSET {"x", "y", "z", "red"}

MainPoints == {<<16777217, -407001, 2>>}

ShiftPoints == {<<-7, 5, 0>>, <<16777217, -407001, 2>>,
                <<1000, -1001, 33554435>>, <<-2, 999, -16777219>>}

Modes == {"auto", "manual", "first_point", "nearest"}

Manuals == {NoManual, Given(<<-407000, -427000>>), Given(<<-407000, -427000, 0>>),
            Given(<<1, 2, 3, 4>>)}

Bases == {-1, 0, 1000}

EnvIo == {"ok", "unreadable", "disk_full"}

FsStates == {[ply |-> p, json |-> j] : p \in {"absent", "file", "dir"},
                                        j \in {"absent", "file", "dir"}}

NoShift == <<>>

RunInit ==
    /\ input_read = FALSE
    /\ shift = NoShift
    /\ points_local = <<>>
    /\ outcome = "running"
    /\ exit_code = 0
    /\ err = "none"
    /\ err_fields = {}
    /\ stderr = "none"
    /\ fs = fs0

(***************************************************************************)
(* ply_to_local.py, step by step.                                          *)
(***************************************************************************)
\* An exception leaves convert_ply_to_local: main catches it, prints it and
\* returns 1; a direct caller sees it raised.
Fail(kind, fields) ==
    /\ pc' = "done"
    /\ err' = kind
    /\ err_fields' = fields
    /\ IF caller = "cli"
       THEN /\ outcome' = "returned"
            /\ exit_code' = 1
            /\ stderr' = kind
       ELSE /\ outcome' = "raised"
            /\ UNCHANGED <<exit_code, stderr>>

\* parse_args: argparse exits with SystemExit on a --mode outside choices and
\* on --manual-shift without exactly 3 values; main passes None for a
\* missing --manual-shift.
ParseArgs ==
    /\ pc = "start"
    /\ caller = "cli"
    /\ IF \/ shift_mode \notin {"auto", "manual", "first_point"}
          \/ (~manual_shift.none /\ Len(manual_shift.vals) # 3)
       THEN /\ pc' = "done"
            /\ outcome' = "raised"
            /\ err' = "SystemExit"
            /\ UNCHANGED <<exit_code, stderr>>
       ELSE /\ pc' = "check"
            /\ UNCHANGED <<outcome, err, exit_code, stderr>>
    /\ UNCHANGED <<ecefVars, argVars, envVars, input_read, shift, points_local,
                   err_fields, fs>>

\* main: the existence check on the output path.
CheckOutput ==
    /\ pc = "check"
    /\ IF OutputExists(force, fs.ply)
       THEN /\ pc' = "done"
            /\ outcome' = "returned"
            /\ exit_code' = 2
            /\ stderr' = "OutputExists"
       ELSE /\ pc' = "read"
            /\ UNCHANGED <<outcome, exit_code, stderr>>
    /\ UNCHANGED <<ecefVars, argVars, envVars, input_read, shift, points_local, err,
                   err_fields, fs>>

\* A direct call of convert_ply_to_local starts at the read.
CallConvert ==
    /\ pc = "start"
    /\ caller = "api"
    /\ pc' = "read"
    /\ UNCHANGED <<ecefVars, argVars, envVars, input_read, shift, points_local, outcome,
                   exit_code, err, err_fields, stderr, fs>>

\* PlyData.read, the required fields, the empty input.
ReadPly ==
    /\ pc = "read"
    /\ input_read' = TRUE
    /\ IF io = "unreadable"
       THEN Fail("IOError", {})
       ELSE IF ~(Required \subseteq prop_names)
       THEN Fail("MissingField", MissingFields(prop_names))
       ELSE IF Len(points_global) = 0
       THEN Fail("EmptyInput", {})
       ELSE /\ pc' = "shift"
            /\ UNCHANGED <<outcome, exit_code, err, err_fields, stderr>>
    /\ UNCHANGED <<ecefVars, argVars, envVars, shift, points_local, fs>>

\* The shift block and the subtraction.
SelectShift ==
    /\ pc = "shift"
    /\ IF ShiftError(shift_mode, manual_shift, auto_base) # "none"
       THEN /\ Fail(ShiftError(shift_mode, manual_shift, auto_base), {})
            /\ UNCHANGED <<shift, points_local>>
       ELSE /\ shift' = ComputeShift(points_global, shift_mode, manual_shift,
                                     auto_base)
            /\ points_local' = PointsLocal(points_global, shift')
            /\ pc' = "write_ply"
            /\ UNCHANGED <<outcome, exit_code, err, err_fields, stderr>>
    /\ UNCHANGED <<ecefVars, argVars, envVars, input_read, fs>>

\* PlyData(...).write(output_ply): open(output_ply, "wb") fails on a
\* directory; a full disk fails the write after the file was created.
WritePly ==
    /\ pc = "write_ply"
    /\ IF fs.ply = "dir"
       THEN /\ Fail("IOError", {})
            /\ UNCHANGED fs
       ELSE IF io = "disk_full"
       THEN /\ Fail("IOError", {})
            /\ fs' = [fs EXCEPT !.ply = "partial"]
       ELSE /\ fs' = [fs EXCEPT !.ply = "new"]
            /\ pc' = IF save_origin_json THEN "write_json" ELSE "return"
            /\ UNCHANGED <<outcome, exit_code, err, err_fields, stderr>>
    /\ UNCHANGED <<ecefVars, argVars, envVars, input_read, shift, points_local>>

\* open(json_path, "w") and json.dump.
WriteJson ==
    /\ pc = "write_json"
    /\ IF fs.json = "dir"
       THEN /\ Fail("IOError", {})
            /\ UNCHANGED fs
       ELSE /\ fs' = [fs EXCEPT !.json = "new"]
            /\ pc' = "return"
            /\ UNCHANGED <<outcome, exit_code, err, err_fields, stderr>>
    /\ UNCHANGED <<ecefVars, argVars, envVars, input_read, shift, points_local>>

\* convert_ply_to_local returns the shift; main returns 0.
Return ==
    /\ pc = "return"
    /\ pc' = "done"
    /\ outcome' = "returned"
    /\ exit_code' = 0
    /\ UNCHANGED <<ecefVars, argVars, envVars, input_read, shift, points_local, err,
                   err_fields, stderr, fs>>

(***************************************************************************)
(* local_ply_2_ecef_las.py: the origin and the rotation.                   *)
(*                                                                         *)
(* An angle is the pair of its sine and cosine, both times TrigScale, so   *)
(* the products of two of them are exact integers over TrigScale^2.        *)
(* Lengths are metres; origin_ecef, R and ecef_points are kept times       *)
(* TrigScale^2.                                                            *)
(***************************************************************************)
Angle(s, c) == [sin |-> s, cos |-> c]

\* origin_lat in (-90, 90): the cosine is positive.
Lats == {Angle(0, 5), Angle(3, 4), Angle(-3, 4), Angle(4, 3), Angle(-4, 3)}

\* origin_lon in (-180, 180].
Lons == {Angle(0, 5), Angle(5, 0), Angle(0, -5), Angle(-5, 0),
         Angle(3, 4), Angle(-4, 3), Angle(4, -3), Angle(-3, -4)}

TrigScale == CHOOSE n \in 1..9 :
    \A a \in Lats \cup Lons : a.sin * a.sin + a.cos * a.cos = n * n

TrigScale2 == TrigScale * TrigScale

WGS84_A == 6378137

\* e2 = 6.69437999014e-3, in millionths.
WGS84_E2_PPM == 6694

\* a * m / d without leaving 32 bits.
MulDiv(a, m, d) == (a \div d) * m + ((a % d) * m) \div d

RECURSIVE ISqrtFrom(_, _)
ISqrtFrom(n, r) == IF r * r <= n THEN r ELSE ISqrtFrom(n, (r + n \div r) \div 2)

\* N0 = a / sqrt(1 - e2 * sin_lat ** 2), in metres; the square root is kept
\* to 1/(1000 * TrigScale), so N0 is within 3e-4 of its value.
PrimeVerticalRadius(lat) ==
    LET w == ISqrtFrom(TrigScale2 * 10^6 - WGS84_E2_PPM * lat.sin * lat.sin,
                       TrigScale * 1000)
    IN  MulDiv(WGS84_A, TrigScale * 1000, w)

\* origin_ecef = (x0, y0, z0), times TrigScale^2.
OriginEcef(lon, lat, h) ==
    LET N0   == PrimeVerticalRadius(lat)
        N0e2 == MulDiv(N0, WGS84_E2_PPM, 1000) \div 1000
    IN  <<(N0 + h) * lat.cos * lon.cos,
          (N0 + h) * lat.cos * lon.sin,
          (N0 - N0e2 + h) * lat.sin * TrigScale>>

\* The second row with the sign of its second entry lost.
RotationMatrixSignError(lon, lat) ==
    << <<-lon.sin * TrigScale,  lon.cos * TrigScale,  0>>,
       <<-lat.sin * lon.cos,    lat.sin * lon.sin,    lat.cos * TrigScale>>,
       << lat.cos * lon.cos,    lat.cos * lon.sin,    lat.sin * TrigScale>> >>

\* R, times TrigScale^2.
RotationMatrix(lon, lat) ==
    << <<-lon.sin * TrigScale,  lon.cos * TrigScale,  0>>,
       <<-lat.sin * lon.cos,   -lat.sin * lon.sin,    lat.cos * TrigScale>>,
       << lat.cos * lon.cos,    lat.cos * lon.sin,    lat.sin * TrigScale>> >>

Dot(u, v) == u[1] * v[1] + u[2] * v[2] + u[3] * v[3]

\* R @ local_points: row i of R against each column (east, north, up).
MatVec(m, v) == <<Dot(m[1], v), Dot(m[2], v), Dot(m[3], v)>>

Transpose(m) == [j \in 1..3 |-> [i \in 1..3 |-> m[i][j]]]

\* ecef_points = origin_ecef.reshape(3, 1) + R @ local_points
EcefPoints(origin, rot, local) ==
    [i \in 1..Len(local) |->
        [k \in 1..3 |-> origin[k] + MatVec(rot, local[i])[k]]]

(***************************************************************************)
(* local_ply_2_ecef_las.py: the RGB channels.  Channel values are kept in  *)
(* hundredths (0.5 is 50, the integer 128 is 12800).                       *)
(***************************************************************************)
Hundredths == 10 * 10

\* val.max() <= 1.01
NormalizedMax == 101

U8Max == 255

Colors == {"red", "green", "blue"}

RECURSIVE SeqMax(_)
SeqMax(vals) ==
    IF Len(vals) = 1 THEN Head(vals)
    ELSE LET m == SeqMax(Tail(vals)) IN IF Head(vals) > m THEN Head(vals) ELSE m

Clip(v, lo, hi) == IF v < lo THEN lo ELSE IF v > hi THEN hi ELSE v

\* Scales a floating channel when its maximum is at most 1.0.
NormalizeChannelStrict(ch) ==
    IF ch.dtype = "float"
    THEN LET scale == SeqMax(ch.vals) <= Hundredths
         IN  [i \in 1..Len(ch.vals) |->
                Clip(IF scale THEN ch.vals[i] * U8Max ELSE ch.vals[i],
                     0, U8Max * Hundredths) \div Hundredths]
    ELSE [i \in 1..Len(ch.vals) |->
            Clip(ch.vals[i], 0, U8Max * Hundredths) \div Hundredths]

\* np.clip(val * 255 if val.max() <= 1.01 else val, 0, 255).astype(np.uint8)
\* for a floating channel, np.clip(val, 0, 255).astype(np.uint8) otherwise.
NormalizeChannel(ch) ==
    IF ch.dtype = "float"
    THEN LET scale == SeqMax(ch.vals) <= NormalizedMax
         IN  [i \in 1..Len(ch.vals) |->
                Clip(IF scale THEN ch.vals[i] * U8Max ELSE ch.vals[i],
                     0, U8Max * Hundredths) \div Hundredths]
    ELSE [i \in 1..Len(ch.vals) |->
            Clip(ch.vals[i], 0, U8Max * Hundredths) \div Hundredths]

NoChannel == [dtype |-> "none", vals |-> <<>>]

(***************************************************************************)
(* local_ply_2_ecef_las.py: paths.                                         *)
(***************************************************************************)
Path(dir, name) == [dir |-> dir, name |-> name]

Dirname(path) == path.dir

\* Writes at the path the caller asked for.
LasPathAsAsked(dir, asked) == Path(dir, asked.name)

\* las_path = os.path.join(output_dir, "output_ecef.las")
LasPath(dir, asked) == Path(dir, "output_ecef.las")

\* The file a path names: "name" and "./name" are the same file.
File(path) == [path EXCEPT !.dir = IF @ = "" THEN "." ELSE @]

(***************************************************************************)
(* local_ply_2_ecef_las.py, step by step.                                  *)
(***************************************************************************)
\* __main__: output_dir = os.path.dirname(args.output) or "."
EcefMain ==
    /\ epc = "start"
    /\ output_dir' = IF Dirname(output) = "" THEN "." ELSE Dirname(output)
    /\ epc' = "convert"
    /\ UNCHANGED <<plyVars, ecefArgs, origin_ecef, R, ecef_points, las_rgb,
                   las_files, reported>>

\* Steps 1 to 3: read the PLY, the origin's ECEF position, ENU -> ECEF.
ConvertEnu ==
    /\ epc = "convert"
    /\ IF input_ply_ok
       THEN /\ origin_ecef' = OriginEcef(origin_lon, origin_lat, origin_height)
            /\ R' = RotationMatrix(origin_lon, origin_lat)
            /\ ecef_points' = EcefPoints(origin_ecef', R', local_points)
            /\ epc' = "write"
       ELSE /\ epc' = "failed"
            /\ UNCHANGED <<origin_ecef, R, ecef_points>>
    /\ UNCHANGED <<plyVars, ecefArgs, output_dir, las_rgb, las_files, reported>>

\* Step 4: the RGB channels and las.write(las_path).
WriteLas ==
    /\ epc = "write"
    /\ las_rgb' = [c \in Colors |->
            IF preserve_rgb /\ vertex_color[c].dtype # "none"
            THEN NormalizeChannel(vertex_color[c])
            ELSE <<>>]
    /\ las_files' = las_files \cup {File(LasPath(output_dir, output))}
    /\ epc' = "report"
    /\ UNCHANGED <<plyVars, ecefArgs, output_dir, origin_ecef, R, ecef_points,
                   reported>>

\* __main__: print(f"Output file: {args.output}")
Report ==
    /\ epc = "report"
    /\ reported' = reported \cup {File(output)}
    /\ epc' = "done"
    /\ UNCHANGED <<plyVars, ecefArgs, output_dir, origin_ecef, R, ecef_points,
                   las_rgb, las_files>>

EcefRunInit ==
    /\ output_dir = ""
    /\ origin_ecef = <<>>
    /\ R = <<>>
    /\ ecef_points = <<>>
    /\ las_rgb = [c \in Colors |-> <<>>]
    /\ las_files = {}
    /\ reported = {}

\* The other tool is not running.
EcefIdle ==
    /\ output = Path("", "output_ecef.las")
    /\ origin_lon = Angle(0, 5)
    /\ origin_lat = Angle(0, 5)
    /\ origin_height = 0
    /\ preserve_rgb = FALSE
    /\ local_points = <<>>
    /\ vertex_color = [c \in Colors |-> NoChannel]
    /\ input_ply_ok = TRUE
    /\ epc = "idle"
    /\ EcefRunInit

(***************************************************************************)
(* Spec: one run of ply_to_local.py, from the command line or as a call.   *)
(***************************************************************************)
Init ==
    /\ caller \in {"cli", "api"}
    /\ prop_names \in PropSets
    /\ points_global \in SeqsUpTo(MainPoints, 0, MaxPoints)
    /\ shift_mode \in Modes
    /\ manual_shift \in Manuals
    /\ auto_base \in Bases
    /\ force \in BOOLEAN
    /\ save_origin_json \in BOOLEAN
    /\ io \in EnvIo
    /\ fs0 \in FsStates
    /\ pc = "start"
    /\ RunInit
    /\ EcefIdle

Next ==
    \/ ParseArgs
    \/ CheckOutput
    \/ CallConvert
    \/ ReadPly
    \/ SelectShift
    \/ WritePly
    \/ WriteJson
    \/ Return

Spec == Init /\ [][Next]_vars

(***************************************************************************)
(* SpecShift: the shift block alone, on a valid non-empty input.           *)
(***************************************************************************)
InitShift ==
    /\ caller = "api"
    /\ prop_names = {"x", "y", "z"}
    /\ points_global \in SeqsUpTo(ShiftPoints, 1, MaxPoints)
    /\ shift_mode \in {"auto", "manual", "first_point"}
    /\ manual_shift \in {Given(<<-407000, -427000, 0>>), Given(<<3, 16777216, -5>>)}
    /\ auto_base \in {1, 3, 1000}
    /\ force = FALSE
    /\ save_origin_json = TRUE
    /\ io = "ok"
    /\ fs0 = [ply |-> "absent", json |-> "absent"]
    /\ pc = "shift"
    /\ RunInit
    /\ EcefIdle

NextShift == SelectShift

SpecShift == InitShift /\ [][NextShift]_vars

\* The other tool is not running.
PlyIdle ==
    /\ caller = "api"
    /\ prop_names = {"x", "y", "z"}
    /\ points_global = <<>>
    /\ shift_mode = "auto"
    /\ manual_shift = NoManual
    /\ auto_base = 1000
    /\ force = FALSE
    /\ save_origin_json = TRUE
    /\ io = "ok"
    /\ fs0 = [ply |-> "absent", json |-> "absent"]
    /\ pc = "idle"
    /\ RunInit

(***************************************************************************)
(* SpecEcef: one run of local_ply_2_ecef_las.py from the command line.     *)
(***************************************************************************)
EnuPoints == {<<0, 0, 0>>, <<0, 0, 1>>, <<2, -3, 0>>, <<-1, 4, 7>>}

Outputs == {Path(d, n) : d \in {"", ".", "out"},
                         n \in {"output_ecef.las", "ecef_pointcloud.las"}}

Heights == {-12, 1}

IntChannel(n) == [dtype |-> "int", vals |-> [i \in 1..n |-> 300 * Hundredths]]

InitEcef ==
    /\ PlyIdle
    /\ output \in Outputs
    /\ origin_lon \in Lons
    /\ origin_lat \in Lats
    /\ origin_height \in Heights
    /\ preserve_rgb \in BOOLEAN
    /\ local_points \in SeqsUpTo(EnuPoints, 1, MaxPoints)
    /\ vertex_color \in {[c \in Colors |-> NoChannel],
                         [c \in Colors |-> IntChannel(Len(local_points))]}
    /\ input_ply_ok \in BOOLEAN
    /\ epc = "start"
    /\ EcefRunInit

NextEcef ==
    \/ EcefMain
    \/ ConvertEnu
    \/ WriteLas
    \/ Report

SpecEcef == InitEcef /\ [][NextEcef]_vars

(***************************************************************************)
(* SpecRgb: the RGB channels of step 4 alone, on a converted input.        *)
(***************************************************************************)
FloatValues == {-20, 0, 50, 100, 101, 102, 12750, 30000}

IntValues == {-5 * Hundredths, 0, 128 * Hundredths, 255 * Hundredths,
              300 * Hundredths}

Channels(n) ==
    {[dtype |-> "float", vals |-> v] : v \in [1..n -> FloatValues]}
        \cup {[dtype |-> "int", vals |-> v] : v \in [1..n -> IntValues]}
        \cup {NoChannel}

InitRgb ==
    /\ PlyIdle
    /\ output = Path("", "output_ecef.las")
    /\ origin_lon = Angle(0, 5)
    /\ origin_lat = Angle(0, 5)
    /\ origin_height = 0
    /\ preserve_rgb \in BOOLEAN
    /\ local_points \in SeqsUpTo({<<0, 0, 0>>}, 1, MaxPoints)
    /\ \E red \in Channels(Len(local_points)) :
       \E green \in {NoChannel, IntChannel(Len(local_points))} :
            vertex_color = [c \in Colors |->
                IF c = "red" THEN red ELSE IF c = "green" THEN green
                ELSE NoChannel]
    /\ input_ply_ok = TRUE
    /\ epc = "write"
    /\ output_dir = "."
    /\ origin_ecef = OriginEcef(origin_lon, origin_lat, origin_height)
    /\ R = RotationMatrix(origin_lon, origin_lat)
    /\ ecef_points = EcefPoints(origin_ecef, R, local_points)
    /\ las_rgb = [c \in Colors |-> <<>>]
    /\ las_files = {}
    /\ reported = {}

NextRgb == WriteLas

SpecRgb == InitRgb /\ [][NextRgb]_vars

(***************************************************************************)
(* Claims about ply_to_local.py.                                           *)
(***************************************************************************)
Failed == pc = "done" /\ (outcome = "raised" \/ exit_code # 0)

\* C1: a run that ends with a non-zero exit code or a raised error has
\* created or modified neither the output PLY nor the *_origin.json.
C1_NoOutputOnFailure == Failed => fs = fs0

\* C2: main returns 2 exactly when the output exists and --force is absent,
\* before the input is read or anything is written; it returns 0 when the
\* conversion completes; it returns 1, with the error on the error stream,
\* for every error raised during the conversion, and no such error escapes.
C2_ExitCodes ==
    (pc = "done" /\ caller = "cli") =>
        /\ outcome = "raised" => err = "SystemExit"
        /\ outcome = "returned" =>
            /\ exit_code \in {0, 1, 2}
            /\ exit_code = 2 <=> (~force /\ fs0.ply # "absent")
            /\ exit_code = 2 =>
                (~input_read /\ fs = fs0 /\ err = "none"
                    /\ stderr = "OutputExists")
            /\ exit_code = 0 <=>
                (fs.ply = "new" /\ fs.json = (IF save_origin_json THEN "new" ELSE fs0.json)
                    /\ err = "none" /\ Len(shift) = 3)
            /\ exit_code = 0 => stderr = "none"
            /\ exit_code = 1 <=> err # "none"
            /\ exit_code = 1 => stderr = err

C2_Witness ==
    /\ pc = "done" /\ caller = "cli" /\ outcome = "returned"
    /\ exit_code = 2 /\ fs0.ply = "file" /\ ~force

\* The run reached the shift block: the input was read, has x, y and z and
\* at least one point.
ReachedShift ==
    /\ input_read /\ io # "unreadable"
    /\ {"x", "y", "z"} \subseteq prop_names
    /\ Len(points_global) > 0

BadParameters ==
    \/ shift_mode \notin {"auto", "manual", "first_point"}
    \/ shift_mode = "auto" /\ auto_base <= 0
    \/ shift_mode = "manual" /\ (manual_shift.none \/ Len(manual_shift.vals) # 3)

\* C6: on a non-empty input with x, y and z, convert_ply_to_local fails with
\* InvalidParameter, writing nothing, exactly when the mode is unsupported,
\* or auto with auto_base <= 0, or manual without exactly 3 values;
\* otherwise it selects a shift.
C6_InvalidParameter ==
    (pc = "done" /\ ReachedShift) =>
        /\ err = "InvalidParameter" <=> BadParameters
        /\ err = "InvalidParameter" => (fs = fs0 /\ shift = NoShift)
        /\ err # "InvalidParameter" => Len(shift) = 3

C6_Witness ==
    /\ pc = "done" /\ ReachedShift /\ err = "InvalidParameter"
    /\ shift_mode = "manual" /\ Len(manual_shift.vals) = 4

\* C7: an input lacking x, y or z fails with MissingField naming exactly the
\* missing fields, an input with the three fields and no point fails with
\* EmptyInput; both before the shift is selected, with nothing written.
C7_MissingOrEmpty ==
    (pc = "done" /\ input_read /\ io # "unreadable") =>
        /\ ~({"x", "y", "z"} \subseteq prop_names) =>
            /\ err = "MissingField"
            /\ err_fields = {f \in {"x", "y", "z"} : f \notin prop_names}
            /\ shift = NoShift /\ fs = fs0
        /\ ({"x", "y", "z"} \subseteq prop_names /\ points_global = <<>>) =>
            /\ err = "EmptyInput"
            /\ shift = NoShift /\ fs = fs0

C7_Witness ==
    /\ pc = "done" /\ err = "MissingField" /\ err_fields = {"z"}
    /\ prop_names = {"x", "y", "red"} /\ fs = fs0

Shifted == pc = "write_ply"

\* C4: in auto mode with auto_base > 0 each axis of the shift is a multiple
\* of auto_base and shift <= mean(axis) < shift + auto_base.
C4_AutoShift ==
    (Shifted /\ shift_mode = "auto" /\ auto_base > 0) =>
        \A k \in 1..3 :
            LET n == Len(points_global)
                total == Sum(Axis(points_global, k))
            IN  /\ shift[k] % auto_base = 0
                /\ shift[k] * n <= total
                /\ total < (shift[k] + auto_base) * n

C4_Witness ==
    /\ Shifted /\ shift_mode = "auto" /\ auto_base = 1000
    /\ \E k \in 1..3 :
        /\ Sum(Axis(points_global, k)) < 0
        /\ Sum(Axis(points_global, k)) % (Len(points_global) * auto_base) # 0
        /\ shift[k] < 0

\* C5: in every mode each stored local coordinate plus the shift is the
\* global coordinate up to the float32 rounding (relative error 2^-24), the
\* same shift for every point; in first_point mode the shift is point 0 and
\* point 0 is stored as (0, 0, 0).
C5_LocalPlusShift ==
    Shifted =>
        /\ Len(points_local) = Len(points_global)
        /\ \A i \in 1..Len(points_global) : \A k \in 1..3 :
            Abs(points_local[i][k] + shift[k] - points_global[i][k])
                <= Abs(points_global[i][k] - shift[k]) \div (2 ^ Float32Precision)
        /\ shift_mode = "first_point" =>
            (shift = points_global[1] /\ points_local[1] = <<0, 0, 0>>)

C5_Witness ==
    /\ Shifted /\ Len(points_global) = 2
    /\ \E i \in 1..2 : \E k \in 1..3 :
        points_local[i][k] + shift[k] # points_global[i][k]

(***************************************************************************)
(* Claims about local_ply_2_ecef_las.py.                                   *)
(***************************************************************************)
Converted == epc \in {"write", "report", "done"}

\* The local tangent-plane axes at the origin in the ECEF basis, times
\* TrigScale^2.
East  == <<-origin_lon.sin * TrigScale, origin_lon.cos * TrigScale, 0>>
North == <<-origin_lat.sin * origin_lon.cos, -origin_lat.sin * origin_lon.sin,
           origin_lat.cos * TrigScale>>
Up    == <<origin_lat.cos * origin_lon.cos, origin_lat.cos * origin_lon.sin,
           origin_lat.sin * TrigScale>>

\* C3: every point (e, n, u) is converted to
\* origin_ecef + e * East + n * North + u * Up.
C3_EnuAxes ==
    Converted =>
        \A i \in 1..Len(local_points) : \A k \in 1..3 :
            ecef_points[i][k] =
                origin_ecef[k] + local_points[i][1] * East[k]
                               + local_points[i][2] * North[k]
                               + local_points[i][3] * Up[k]

\* C8: R is orthonormal, and subtracting origin_ecef then multiplying by the
\* transpose of R gives back the ENU coordinates.
C8_RoundTrip ==
    Converted =>
        /\ \A i \in 1..3 : \A j \in 1..3 :
            Dot(Transpose(R)[i], Transpose(R)[j])
                = IF i = j THEN TrigScale2 * TrigScale2 ELSE 0
        /\ \A i \in 1..Len(local_points) :
            LET d == [k \in 1..3 |-> ecef_points[i][k] - origin_ecef[k]]
            IN  \A k \in 1..3 :
                    Dot(Transpose(R)[k], d)
                        = TrigScale2 * TrigScale2 * local_points[i][k]

C8_Witness ==
    /\ Converted
    /\ origin_lat = Angle(3, 4) /\ origin_lon = Angle(-4, 3)
    /\ Len(local_points) = 2 /\ local_points[2] = <<-1, 4, 7>>
    /\ ecef_points[2] # ecef_points[1]

\* C9: every normalized value is in 0..255; an integer channel is clamped to
\* [0, 255]; a floating channel is scaled by 255 exactly when its maximum is
\* at most 1.01, then clamped to [0, 255] and truncated toward zero.
C9_Normalized ==
    (epc = "report" /\ preserve_rgb) =>
        \A c \in Colors : vertex_color[c].dtype # "none" =>
            LET v      == vertex_color[c].vals
                out    == las_rgb[c]
                scale  == \A j \in 1..Len(v) : v[j] <= 101
                top    == 255 * Hundredths
            IN  /\ Len(out) = Len(v)
                /\ \A i \in 1..Len(v) :
                    /\ out[i] \in 0..255
                    /\ vertex_color[c].dtype = "int" =>
                        out[i] * Hundredths =
                            (IF v[i] < 0 THEN 0 ELSE IF v[i] > top THEN top ELSE v[i])
                    /\ vertex_color[c].dtype = "float" =>
                        LET t  == IF scale THEN 255 * v[i] ELSE v[i]
                            cl == IF t < 0 THEN 0 ELSE IF t > top THEN top ELSE t
                        IN  out[i] * Hundredths <= cl /\ cl < (out[i] + 1) * Hundredths

C9_Witness ==
    /\ epc = "report" /\ preserve_rgb
    /\ vertex_color["red"] = [dtype |-> "float", vals |-> <<50, 101>>]
    /\ las_rgb["red"] = <<127, 255>>
    /\ vertex_color["green"].dtype = "int" /\ las_rgb["green"] = <<255, 255>>

\* C10: after a successful run the LAS file has been written at exactly the
\* path given as --output, the one reported as "Output file", and nowhere
\* else.
C10_WrittenAtOutput ==
    epc = "done" => (las_files = {File(output)} /\ las_files = reported)

=============================================================================
